---- MODULE Spec2Model ----
(***************************************************************************)
(* Transport/TransportClass.py: the transport configuration (class         *)
(* transport), its append operations add_nw / add_nc, the traversal         *)
(* get_Landauer_conductance, get_bands_nw, and the scattering composition   *)
(* scat_product.                                                            *)
(*                                                                          *)
(* Numbers.  Python floats are modelled by exact rationals <<n, d>>, d > 0, *)
(* in lowest terms.  A radius may be (w + h) / pi, so radii are pairs       *)
(* <<a, b>> of rationals standing for a + b/pi.  An optional value (None in *)
(* the source) is the empty sequence, a present value x is <<x>>.           *)
(*                                                                          *)
(* Matrices.  scat_product is modelled on exact rational matrices.  In the  *)
(* traversal the slice matrices come out of a matrix exponential, which has *)
(* no exact model here: a slice is the pair (generator, length) that        *)
(* determines it, and the running matrix S is the ordered chain of the      *)
(* slices merged so far, in the operand order scat_product received them.   *)
(***************************************************************************)
EXTENDS Integers, Sequences, FiniteSets, TLC

\* ---------------------------------------------------------------- bounds
MaxRegions == 2
MaxX == 2
MaxPoints == 2
MaxEntry == 1

\* dx of a wire added without n_points
DefaultDx == 100

\* ------------------------------------------------------------- optionals
None == <<>>
Some(x) == <<x>>
IsNone(o) == o = <<>>
Val(o) == o[1]

\* ------------------------------------------------------------- rationals
RECURSIVE Gcd(_, _)
Gcd(a, b) == IF b = 0 THEN a ELSE Gcd(b, a % b)

IAbs(n) == IF n < 0 THEN -n ELSE n

\* n / d in lowest terms, d # 0
Rat(n, d) ==
    LET g == Gcd(IAbs(n), IAbs(d))
        s == IF d < 0 THEN -1 ELSE 1
    IN  <<(s * n) \div g, (s * d) \div g>>

Q(n) == <<n, 1>>
RAdd(p, q) == Rat(p[1] * q[2] + q[1] * p[2], p[2] * q[2])
RSub(p, q) == Rat(p[1] * q[2] - q[1] * p[2], p[2] * q[2])
RMul(p, q) == Rat(p[1] * q[1], p[2] * q[2])
RIsZero(p) == p[1] = 0
\* p / q, q # 0 (the callers raise ZeroDivisionError first)
RDiv(p, q) == Rat(p[1] * q[2], p[2] * q[1])
RAbs(p) == <<IAbs(p[1]), p[2]>>
RLeq(p, q) == p[1] * q[2] <= q[1] * p[2]

\* a + b/pi
Lin(a, b) == <<a, b>>
LAdd(u, v) == <<RAdd(u[1], v[1]), RAdd(u[2], v[2])>>
LSub(u, v) == <<RSub(u[1], v[1]), RSub(u[2], v[2])>>
LScale(c, u) == <<RMul(c, u[1]), RMul(c, u[2])>>

\* ------------------------------------------------------------ the state
VARIABLES vf, B_perp, B_par, l_cutoff, modes, Nmodes, geometry, n_regions,
          last, s1, s2, s3

config == <<vf, B_perp, B_par, l_cutoff, modes, Nmodes, geometry, n_regions>>
alg == <<s1, s2, s3>>
vars == <<vf, B_perp, B_par, l_cutoff, modes, Nmodes, geometry, n_regions,
          last, s1, s2, s3>>

\* ------------------------------------------------- geometry of a cone
\* step(x1, x2, sigma=None): np.heaviside(x1 - x2, 1)
step(x1, x2) == IF RLeq(x2, x1) THEN Q(1) ELSE Q(0)

\* geom_nc for a rational profile value (widths and heights); x1 # x2
geom_nc(x, x1, x2, r1, r2) ==
    RAdd(RAdd(r1, RMul(RSub(r2, r1), step(x, x2))),
         RMul(RMul(RDiv(RSub(r2, r1), RSub(x2, x1)), RSub(x, x1)),
              RSub(step(x, x1), step(x, x2))))

\* geom_nc for a radius a + b/pi: the same expression, linear in (r1, r2)
geom_nc_r(x, x1, x2, r1, r2) ==
    Lin(geom_nc(x, x1, x2, r1[1], r2[1]), geom_nc(x, x1, x2, r1[2], r2[2]))

\* np.linspace(x0, xf, n)[j + 1], n >= 1: n = 1 gives the single point x0
linspace(x0, xf, n) ==
    [j \in 1..n |->
        IF n = 1 THEN Q(x0)
        ELSE RAdd(Q(x0), RMul(Rat(j - 1, n - 1), Q(xf - x0)))]

\* ------------------------------------------------------- the dictionary
EmptyDict == [k \in {} |-> None]

\* self.geometry[k] = rec
Put(geom, k, rec) ==
    [i \in (DOMAIN geom) \cup {k} |-> IF i = k THEN rec ELSE geom[i]]

\* What a call leaves behind: the dictionary, the counter and how it ended
Outcome(geom, n, out) == [geometry |-> geom, n_regions |-> n, out |-> out]

ErrMatch == "ValueError: Regions dont match"
ErrShape == "ValueError: Need to specify r or (w, h)"
ErrZeroDiv == "ZeroDivisionError"
ErrLinspace == "ValueError: Number of samples must be non-negative"

\* Mismatch comparing x0 with the previous region's start: a variant the
\* shared-boundary invariant has to tell from the code's test
Mismatch_PrevStart(geom, n, x0) == n # 0 /\ x0 # geom[n - 1].x0

\* x0 != self.geometry[self.n_regions - 1]['xf'], tested when n_regions != 0
Mismatch(geom, n, x0) == n # 0 /\ x0 # geom[n - 1].xf

\* r is None and (w is None or h is None)
NoShape(r, w, h) == IsNone(r) /\ (IsNone(w) \/ IsNone(h))

\* (w + h) / pi if r is None else r
Radius(r, w, h) ==
    IF IsNone(r) THEN Lin(Q(0), Q(Val(w) + Val(h))) ELSE Lin(Q(Val(r)), Q(0))

\* ------------------------------------------------------------- add_nw
\* The fields add_nw has stored when it raises on abs(xf - x0) / n_points
WireStub(x0, xf) == [type |-> "nw", x0 |-> x0, xf |-> xf]

\* The record of a stored wire
WireRecord(x0, xf, Vnm, n_points, r, w, h) ==
    [type |-> "nw", x0 |-> x0, xf |-> xf,
     dx |-> IF IsNone(n_points) THEN Q(DefaultDx)
            ELSE Rat(IAbs(xf - x0), Val(n_points)),
     n_points |-> n_points,
     V |-> Vnm,
     r |-> Radius(r, w, h),
     w |-> w,
     h |-> h]

\* add_nw creating the region's entry before its two tests: a variant the
\* rejection claim has to tell from the code's order
add_nw_StoreFirst(geom, n, x0, xf, Vnm, n_points, r, w, h) ==
    LET stored == Put(geom, n, WireStub(x0, xf))
    IN  IF Mismatch(geom, n, x0) THEN Outcome(stored, n, ErrMatch)
        ELSE IF NoShape(r, w, h) THEN Outcome(stored, n, ErrShape)
        ELSE IF ~IsNone(n_points) /\ Val(n_points) = 0
        THEN Outcome(stored, n, ErrZeroDiv)
        ELSE Outcome(Put(geom, n, WireRecord(x0, xf, Vnm, n_points, r, w, h)),
                     n + 1, "ok")

add_nw(geom, n, x0, xf, Vnm, n_points, r, w, h) ==
    IF Mismatch(geom, n, x0) THEN Outcome(geom, n, ErrMatch)
    ELSE IF NoShape(r, w, h) THEN Outcome(geom, n, ErrShape)
    ELSE IF ~IsNone(n_points) /\ Val(n_points) = 0
    THEN \* abs(xf - x0) / n_points raises after type, x0, xf were stored
         Outcome(Put(geom, n, WireStub(x0, xf)), n, ErrZeroDiv)
    ELSE Outcome(Put(geom, n, WireRecord(x0, xf, Vnm, n_points, r, w, h)),
                 n + 1, "ok")

\* ------------------------------------------------------------- add_nc
\* The sampled profile geom_nc(np.linspace(x0, xf, n_points), x0, xf, a, b)
Profile(x0, xf, n_points, a, b) ==
    LET x == linspace(x0, xf, n_points)
    IN  [j \in 1..n_points |-> geom_nc(x[j], Q(x0), Q(xf), a, b)]

ProfileR(x0, xf, n_points, a, b) ==
    LET x == linspace(x0, xf, n_points)
    IN  [j \in 1..n_points |-> geom_nc_r(x[j], Q(x0), Q(xf), a, b)]

add_nc(geom, n, x0, xf, n_points, Vnm, r1, r2, w1, w2, h1, h2) ==
    IF Mismatch(geom, n, x0) THEN Outcome(geom, n, ErrMatch)
    ELSE IF NoShape(r1, w1, h1) THEN Outcome(geom, n, ErrShape)
    ELSE IF NoShape(r2, w2, h2) THEN Outcome(geom, n, ErrShape)
    ELSE IF n_points = 0
    THEN \* abs(xf - x0) / n_points raises after type, x0, xf were stored
         Outcome(Put(geom, n, [type |-> "nc", x0 |-> x0, xf |-> xf]), n, ErrZeroDiv)
    ELSE LET head == [type |-> "nc", x0 |-> x0, xf |-> xf,
                      dx |-> Rat(IAbs(xf - x0), n_points),
                      n_points |-> Some(n_points),
                      V |-> Vnm]
         IN  IF n_points < 0
             THEN \* np.linspace refuses a negative number of samples
                  Outcome(Put(geom, n, head), n, ErrLinspace)
             ELSE IF x0 = xf
             THEN \* geom_nc divides by (x2 - x1)
                  Outcome(Put(geom, n, head), n, ErrZeroDiv)
             ELSE Outcome(
                    Put(geom, n,
                        [type |-> "nc", x0 |-> x0, xf |-> xf,
                         dx |-> Rat(IAbs(xf - x0), n_points),
                         n_points |-> Some(n_points),
                         V |-> Vnm,
                         r |-> ProfileR(x0, xf, n_points,
                                        Radius(r1, w1, h1), Radius(r2, w2, h2)),
                         w |-> IF IsNone(w1) \/ IsNone(w2) THEN None
                               ELSE Some(Profile(x0, xf, n_points,
                                                 Q(Val(w1)), Q(Val(w2)))),
                         h |-> IF IsNone(h1) \/ IsNone(h2) THEN None
                               ELSE Some(Profile(x0, xf, n_points,
                                                 Q(Val(h1)), Q(Val(h2))))]),
                    n + 1, "ok")

\* ------------------------------------------- get_Landauer_conductance
ErrVnm == "AssertionError: Vnm must be the Fourier transform matrix of V"
ErrUnbound == "UnboundLocalError: S referenced before assignment"
ErrOverflow == "OverflowError: Need for discretisation"
ErrKey == "KeyError"
ErrType == "TypeError"
ErrNotWire == "ValueError: Can only calculate spectrum in a nanowire"

\* M_EV raises: Vnm is given and Vnm.shape != (len(modes), len(modes))
M_EV_raises(N, Vnm) == ~IsNone(Vnm) /\ Val(Vnm) # <<N, N>>

\* The sum M_EV + M_theta + M_Ax per unit step: what the three builders read
Generator(R, dR, w, h, E, Vnm) ==
    [R |-> R, dR |-> dR, w |-> w, h |-> h, E |-> E, V |-> Vnm]

\* transfer_to_scattering(expm(M * factor)), M built with step dx
Slice(gen, dx, factor) == [gen |-> gen, len |-> RMul(dx, factor)]

\* scat_product(s1, s2) on chains: the slices of s1, then those of s2
scat_chain(a, b) == a \o b

\* Wire branch: scat_product(S, dS)
WireCompose(S, dS) == scat_chain(S, <<dS>>)

\* Cone branch: scat_product(dS, S)
ConeCompose(S, dS) == scat_chain(<<dS>>, S)

\* The traversal's locals: S (None while unassigned), how it has ended so
\* far, every slice computed in traversal order, the slices accumulated per
\* region, and whether every scat_product call had S as its first operand.
Start(n) ==
    [S |-> None, out |-> "run", trav |-> <<>>, count |-> [i \in 1..n |-> 0],
     accFirst |-> TRUE]

Fail(st, err) == [st EXCEPT !.out = err]

\* S = dS if first else <compose>(S, dS)
Accumulate(st, i, dS, first, wire) ==
    IF first
    THEN [st EXCEPT !.S = Some(<<dS>>), !.trav = Append(@, dS),
                    !.count[i + 1] = @ + 1]
    ELSE IF IsNone(st.S) THEN Fail(st, ErrUnbound)
    ELSE [st EXCEPT !.S = Some(IF wire THEN WireCompose(Val(st.S), dS)
                                ELSE ConeCompose(Val(st.S), dS)),
                    !.trav = Append(@, dS),
                    !.count[i + 1] = @ + 1,
                    !.accFirst = @ /\ wire]

\* for j in range(n_points): S = dS if (i == 0 and j == 0) else scat_product(S, dS)
RECURSIVE WireLoop(_, _, _, _, _)
WireLoop(st, i, j, n_points, dS) ==
    IF j >= n_points \/ st.out # "run" THEN st
    ELSE WireLoop(Accumulate(st, i, dS, i = 0 /\ j = 0, TRUE), i, j + 1, n_points, dS)

WireGen(reg, E) ==
    Generator(reg.r, Lin(Q(0), Q(0)),
              IF IsNone(reg.w) THEN None ELSE Some(Q(Val(reg.w))),
              IF IsNone(reg.h) THEN None ELSE Some(Q(Val(reg.h))),
              E, reg.V)

\* The 'nw' branch exponentiating M as built, over dx, whatever the length
\* of an undiscretized wire: a variant the split-wire claim has to tell from
\* the code's factor (xf - x0) / dx
WireRegion_NoScale(st, reg, i, N, E, nan) ==
    IF M_EV_raises(N, reg.V) THEN Fail(st, ErrVnm)
    ELSE IF IsNone(reg.n_points)
    THEN LET dS == Slice(WireGen(reg, E), reg.dx, Q(1))
             st2 == Accumulate(st, i, dS, i = 0, TRUE)
         IN  IF st2.out = "run" /\ nan THEN Fail(st2, ErrOverflow) ELSE st2
    ELSE WireLoop(st, i, 0, Val(reg.n_points),
                  Slice(WireGen(reg, E), reg.dx, Q(1)))

\* The 'nw' branch for region i; nan: expm of the undiscretized wire overflows
WireRegion(st, reg, i, N, E, nan) ==
    IF M_EV_raises(N, reg.V) THEN Fail(st, ErrVnm)
    ELSE IF IsNone(reg.n_points)
    THEN LET dS == Slice(WireGen(reg, E), reg.dx, RDiv(Q(reg.xf - reg.x0), reg.dx))
             st2 == Accumulate(st, i, dS, i = 0, TRUE)
         IN  IF st2.out = "run" /\ nan THEN Fail(st2, ErrOverflow) ELSE st2
    ELSE WireLoop(st, i, 0, Val(reg.n_points),
                  Slice(WireGen(reg, E), reg.dx, Q(1)))

\* w = geometry[i]['w'][j]; h = geometry[i]['h'][j], both None on TypeError
ConeW(reg, j) == IF IsNone(reg.w) \/ IsNone(reg.h) THEN None ELSE Some(Val(reg.w)[j + 1])
ConeH(reg, j) == IF IsNone(reg.w) \/ IsNone(reg.h) THEN None ELSE Some(Val(reg.h)[j + 1])

\* for j in range(n_points - 1): ... S = dS if (i == 0 and j == 0) else scat_product(dS, S)
RECURSIVE ConeLoop(_, _, _, _, _, _)
ConeLoop(st, reg, i, j, N, E) ==
    IF j >= Val(reg.n_points) - 1 \/ st.out # "run" THEN st
    ELSE IF M_EV_raises(N, reg.V) THEN Fail(st, ErrVnm)
    ELSE LET dr == LSub(reg.r[j + 2], reg.r[j + 1])
             dS == Slice(Generator(reg.r[j + 1], dr, ConeW(reg, j), ConeH(reg, j),
                                   E, reg.V),
                         reg.dx, Q(1))
         IN  ConeLoop(Accumulate(st, i, dS, i = 0 /\ j = 0, FALSE), reg, i, j + 1, N, E)

\* for i in range(0, self.n_regions)
RECURSIVE RegionLoop(_, _, _, _, _, _, _)
RegionLoop(st, geom, n, i, N, E, nanAt) ==
    IF i >= n \/ st.out # "run" THEN st
    ELSE RegionLoop(IF geom[i].type = "nw"
                    THEN WireRegion(st, geom[i], i, N, E, nanAt = i)
                    ELSE ConeLoop(st, geom[i], i, 0, N, E),
                    geom, n, i + 1, N, E, nanAt)

\* t = S[Nmodes:, 0:Nmodes]; G = trace(t^dagger t)
get_Landauer_conductance(geom, n, N, E, nanAt) ==
    LET st == RegionLoop(Start(n), geom, n, 0, N, E, nanAt)
    IN  IF st.out # "run" THEN st
        ELSE IF IsNone(st.S) THEN Fail(st, ErrUnbound)
        ELSE [st EXCEPT !.out = "G"]

\* -------------------------------------------------------- get_bands_nw
get_bands_nw(geom, region, Bperp) ==
    IF region \notin DOMAIN geom THEN ErrKey
    ELSE IF geom[region].type # "nw" THEN ErrNotWire
    ELSE IF "w" \notin DOMAIN geom[region] THEN ErrKey
    ELSE IF Bperp # 0 /\ (IsNone(geom[region].w) \/ IsNone(geom[region].h))
    THEN ErrType
    ELSE "bands"

\* -------------------------------------------------------- scat_product
\* A square matrix is the sequence of its rows, its entries rationals.
RECURSIVE DotFrom(_, _, _, _, _)
DotFrom(A, B, i, j, k) ==
    IF k > Len(A) THEN Q(0)
    ELSE RAdd(RMul(A[i][k], B[k][j]), DotFrom(A, B, i, j, k + 1))

\* A @ B
MatMul(A, B) == [i \in 1..Len(A) |-> [j \in 1..Len(A) |-> DotFrom(A, B, i, j, 1)]]
MatAdd(A, B) == [i \in 1..Len(A) |-> [j \in 1..Len(A) |-> RAdd(A[i][j], B[i][j])]]
MatSub(A, B) == [i \in 1..Len(A) |-> [j \in 1..Len(A) |-> RSub(A[i][j], B[i][j])]]

\* np.eye(n)
Eye(n) == [i \in 1..n |-> [j \in 1..n |-> IF i = j THEN Q(1) ELSE Q(0)]]

\* s[r0 : r0 + n, c0 : c0 + n]
Block(s, r0, c0, n) == [i \in 1..n |-> [j \in 1..n |-> s[r0 + i][c0 + j]]]

\* np.block([[A, B], [C, D]])
np_block(A, B, C, D) ==
    LET n == Len(A)
    IN  [i \in 1..(2 * n) |-> [j \in 1..(2 * n) |->
            IF i <= n THEN (IF j <= n THEN A[i][j] ELSE B[i][j - n])
            ELSE (IF j <= n THEN C[i - n][j] ELSE D[i - n][j - n])]]

\* Determinant of a 1x1 or 2x2 matrix
Det(A) ==
    IF Len(A) = 1 THEN A[1][1]
    ELSE RSub(RMul(A[1][1], A[2][2]), RMul(A[1][2], A[2][1]))

Singular(A) == RIsZero(Det(A))

\* numpy.linalg.inv of a non-singular 1x1 or 2x2 matrix
inv(A) ==
    LET d == Det(A)
    IN  IF Len(A) = 1 THEN <<<<RDiv(Q(1), d)>>>>
        ELSE << <<RDiv(A[2][2], d), RDiv(RSub(Q(0), A[1][2]), d)>>,
                <<RDiv(RSub(Q(0), A[2][1]), d), RDiv(A[1][1], d)>> >>

ErrSize == "ValueError: Different size for scattering matrices"
ErrSingular == "LinAlgError: Singular matrix"

Raised(err) == [out |-> err, m |-> <<>>]
Returned(m) == [out |-> "ok", m |-> m]

\* scat_product without the multiple reflections in the reverse
\* transmission, T' = t1' t2': a variant associativity has to tell from the
\* code's T' = t1' inv(I - r2 r1') t2'
scat_product_SinglePass(a, b) ==
    IF Len(a) # Len(b) THEN Raised(ErrSize)
    ELSE LET n_modes == Len(a) \div 2
             r1 == Block(a, 0, 0, n_modes)
             r2 == Block(b, 0, 0, n_modes)
             r1p == Block(a, n_modes, n_modes, n_modes)
             r2p == Block(b, n_modes, n_modes, n_modes)
             t1 == Block(a, n_modes, 0, n_modes)
             t2 == Block(b, n_modes, 0, n_modes)
             t1p == Block(a, 0, n_modes, n_modes)
             t2p == Block(b, 0, n_modes, n_modes)
             d1 == MatSub(Eye(n_modes), MatMul(r1p, r2))
             d2 == MatSub(Eye(n_modes), MatMul(r2, r1p))
         IN  IF Singular(d1) \/ Singular(d2) THEN Raised(ErrSingular)
             ELSE LET r1pr2t1 == MatMul(inv(d1), t1)
                      r2r1pt2p == MatMul(inv(d2), t2p)
                      R  == MatAdd(r1, MatMul(MatMul(t1p, r2), r1pr2t1))
                      Rp == MatAdd(r2p, MatMul(MatMul(t2, r1p), r2r1pt2p))
                      T  == MatMul(t2, r1pr2t1)
                      Tp == MatMul(t1p, t2p)
                  IN  Returned(np_block(R, Tp, T, Rp))

scat_product(a, b) ==
    IF Len(a) # Len(b) THEN Raised(ErrSize)
    ELSE LET n_modes == Len(a) \div 2
             r1 == Block(a, 0, 0, n_modes)
             r2 == Block(b, 0, 0, n_modes)
             r1p == Block(a, n_modes, n_modes, n_modes)
             r2p == Block(b, n_modes, n_modes, n_modes)
             t1 == Block(a, n_modes, 0, n_modes)
             t2 == Block(b, n_modes, 0, n_modes)
             t1p == Block(a, 0, n_modes, n_modes)
             t2p == Block(b, 0, n_modes, n_modes)
             d1 == MatSub(Eye(n_modes), MatMul(r1p, r2))
             d2 == MatSub(Eye(n_modes), MatMul(r2, r1p))
         IN  IF Singular(d1) \/ Singular(d2) THEN Raised(ErrSingular)
             ELSE LET r1pr2t1 == MatMul(inv(d1), t1)
                      r2r1pt2p == MatMul(inv(d2), t2p)
                      R  == MatAdd(r1, MatMul(MatMul(t1p, r2), r1pr2t1))
                      Rp == MatAdd(r2p, MatMul(MatMul(t2, r1p), r2r1pt2p))
                      T  == MatMul(t2, r1pr2t1)
                      Tp == MatMul(t1p, r2r1pt2p)
                  IN  Returned(np_block(R, Tp, T, Rp))

\* scat_product applied to the outcome of an earlier call
ThenProduct(x, b) == IF x.out # "ok" THEN x ELSE scat_product(x.m, b)
ProductThen(a, y) == IF y.out # "ok" THEN y ELSE scat_product(a, y.m)

\* ------------------------------------------------------------- inputs
Xs == 0..MaxX
Energies == {1}
LCutoffs == {1}
BPerps == {0, 1}
\* Potential matrices, by shape: (3, 3) fits l_cutoff = 1, (1, 3) does not
GoodV == Some(<<3, 3>>)
BadV == Some(<<1, 3>>)

NwArgs(x0, xf, Vnm, n_points, r, w, h) ==
    [x0 |-> x0, xf |-> xf, Vnm |-> Vnm, n_points |-> n_points, r |-> r, w |-> w, h |-> h]

NcArgs(x0, xf, n_points, Vnm, r1, r2, w1, w2, h1, h2) ==
    [x0 |-> x0, xf |-> xf, n_points |-> n_points, Vnm |-> Vnm,
     r1 |-> r1, r2 |-> r2, w1 |-> w1, w2 |-> w2, h1 |-> h1, h2 |-> h2]

\* <<x0, xf>> with x0 < xf
Spans == {p \in Xs \X Xs : p[1] < p[2]}

\* Calls of Spec, all with x0 < xf: round wires with or without a
\* (wrong-shaped) potential, undiscretized or with n_points = -1, 1, 2, ...;
\* rectangular wires with a well-shaped potential; wires without a
\* cross-section.
NwInputs ==
    UNION {
      {NwArgs(p[1], p[2], Vnm, n_points, Some(1), None, None) :
          Vnm \in {None, BadV},
          n_points \in {None} \cup {Some(k) : k \in {-1} \cup 1..MaxPoints}}
      \cup {NwArgs(p[1], p[2], GoodV, n_points, None, Some(2), Some(1)) :
          n_points \in {None, Some(1)}}
      \cup {NwArgs(p[1], p[2], None, None, None, w, None) : w \in {None, Some(2)}}
      \cup {NwArgs(p[1], p[2], None, None, None, None, Some(1))}
      : p \in Spans }

\* Cones from radius 1 to radius 2 with n_points = 1, 2, ...; a rectangular
\* cone; cones whose initial or final cross-section is missing.
NcInputs ==
    UNION {
      {NcArgs(p[1], p[2], n_points, Vnm, Some(1), Some(2), None, None, None, None) :
          Vnm \in {None, BadV}, n_points \in 1..MaxPoints}
      \cup {NcArgs(p[1], p[2], 2, GoodV, None, None, Some(2), Some(1), Some(1), Some(1)),
            NcArgs(p[1], p[2], 1, None, Some(1), None, None, None, None, Some(1)),
            NcArgs(p[1], p[2], 1, None, None, Some(2), Some(2), None, None, None)}
      : p \in Spans }

\* Calls of SpecAdd, with x0 <= xf and no potential: every way of giving or
\* omitting the cross-section, n_points zero and negative included.
Shapes ==
    { <<Some(1), None, None>>, <<None, Some(2), Some(1)>>, <<None, Some(2), None>>,
      <<None, None, Some(1)>>, <<None, None, None>> }

EndShapes == Shapes \ { <<None, None, Some(1)>> }

NwInputsAdd ==
    { NwArgs(x0, xf, None, n_points, sh[1], sh[2], sh[3]) :
        x0 \in Xs, xf \in Xs, n_points \in {None, Some(0)}, sh \in Shapes }

NcInputsAdd ==
    { NcArgs(x0, xf, n_points, None, e1[1], e2[1], e1[2], e2[2], e1[3], e2[3]) :
        x0 \in Xs, xf \in Xs, n_points \in -1..1,
        e1 \in EndShapes, e2 \in EndShapes }

\* The record of the latest call: the operation, how it ended ("ok", "G",
\* "bands" or the exception) and, of get_Landauer_conductance, its locals.
Record(op, out, run) == [op |-> op, out |-> out, run |-> run]

\* ---------------------------------------------- transport.__post_init__
Init ==
    /\ vf = 1
    /\ B_perp \in BPerps
    /\ B_par = 0
    /\ l_cutoff \in LCutoffs
    /\ modes = [k \in 1..(2 * l_cutoff + 1) |-> k - 1 - l_cutoff]
    /\ Nmodes = 2 * l_cutoff + 1
    /\ geometry = EmptyDict
    /\ n_regions = 0
    /\ last = Record("__post_init__", "ok", None)
    /\ s1 = <<>> /\ s2 = <<>> /\ s3 = <<>>

\* The call changes the dictionary and the counter as res says
Effect(op, res) ==
    /\ geometry' = res.geometry
    /\ n_regions' = res.n_regions
    /\ last' = Record(op, res.out, None)
    /\ UNCHANGED <<vf, B_perp, B_par, l_cutoff, modes, Nmodes, s1, s2, s3>>

AddNwCall(a) ==
    Effect("add_nw",
           add_nw(geometry, n_regions, a.x0, a.xf, a.Vnm, a.n_points, a.r, a.w, a.h))

AddNcCall(a) ==
    Effect("add_nc",
           add_nc(geometry, n_regions, a.x0, a.xf, a.n_points, a.Vnm,
                  a.r1, a.r2, a.w1, a.w2, a.h1, a.h2))

AddNw ==
    /\ n_regions < MaxRegions
    /\ \E a \in NwInputs : AddNwCall(a)

AddNc ==
    /\ n_regions < MaxRegions
    /\ \E a \in NcInputs : AddNcCall(a)

\* get_Landauer_conductance writing M_EV's default potential, zeros(N), back
\* into the regions stored without one: a variant the side-effect claim has
\* to tell from the code, where the default stays local to M_EV
GetLandauer_StoresDefault ==
    /\ \E E \in Energies, nanAt \in 0..n_regions :
         LET st == get_Landauer_conductance(geometry, n_regions, Nmodes, E, nanAt)
         IN  last' = Record("get_Landauer_conductance", st.out, Some(st))
    /\ geometry' = [k \in DOMAIN geometry |->
                      IF geometry[k].V = None
                      THEN [geometry[k] EXCEPT !.V = Some(<<Nmodes>>)]
                      ELSE geometry[k]]
    /\ UNCHANGED <<vf, B_perp, B_par, l_cutoff, modes, Nmodes, n_regions, alg>>

\* nanAt: the region whose undiscretized exponential overflows (n_regions: none)
GetLandauer ==
    /\ \E E \in Energies, nanAt \in 0..n_regions :
         LET st == get_Landauer_conductance(geometry, n_regions, Nmodes, E, nanAt)
         IN  last' = Record("get_Landauer_conductance", st.out, Some(st))
    /\ UNCHANGED <<config, alg>>

GetBands ==
    /\ \E region \in 0..MaxRegions :
         last' = Record("get_bands_nw", get_bands_nw(geometry, region, B_perp), None)
    /\ UNCHANGED <<config, alg>>

Next == AddNw \/ AddNc \/ GetLandauer \/ GetBands

Spec == Init /\ [][Next]_vars

\* ------------------------------------------- the append operations alone
AddNwAny ==
    /\ n_regions < MaxRegions
    /\ \E a \in NwInputsAdd : a.x0 <= a.xf /\ AddNwCall(a)

AddNcAny ==
    /\ n_regions < MaxRegions
    /\ \E a \in NcInputsAdd : a.x0 <= a.xf /\ AddNcCall(a)

NextAdd == AddNwAny \/ AddNcAny

SpecAdd == Init /\ [][NextAdd]_vars

\* ------------------------------------------------- scat_product alone
\* One-mode scattering matrix [[r, t'], [t, r']] with integer entries
Mat2(r, tp, t, rp) == << <<Q(r), Q(tp)>>, <<Q(t), Q(rp)>> >>

\* The rational matrix of an integer matrix
IntMat(m) == [i \in 1..Len(m) |-> [j \in 1..Len(m) |-> Q(m[i][j])]]

OneMode == {Mat2(r, tp, t, rp) : r \in 0..MaxEntry, tp \in 0..MaxEntry,
                                 t \in 0..MaxEntry, rp \in 0..MaxEntry}

\* One-mode matrices with negative and fractional entries, and two-mode
\* (4 x 4) matrices, whose blocks do not commute.
Samples ==
    { << <<Rat(1, 2), Q(1)>>, <<Q(2), Q(-1)>> >>,
      << <<Q(0), Q(-1)>>, <<Q(1), Rat(1, 2)>> >>,
      << <<Q(2), Q(1)>>, <<Q(1), Q(0)>> >>,
      IntMat(<< <<1, -1, -1, 1>>, <<1, -1, 2, -1>>, <<0, -1, 0, 2>>, <<1, -1, 1, 1>> >>),
      IntMat(<< <<2, -1, -1, 2>>, <<2, 1, 1, 1>>, <<-1, 2, 0, 0>>, <<1, -1, 0, 1>> >>),
      IntMat(<< <<0, 1, 2, -1>>, <<2, 2, 2, -1>>, <<2, 1, 1, 0>>, <<0, 1, 2, 1>> >>) }

InitAlg ==
    /\ vf = 1
    /\ B_perp = 0
    /\ B_par = 0
    /\ l_cutoff = 1
    /\ modes = [k \in 1..(2 * l_cutoff + 1) |-> k - 1 - l_cutoff]
    /\ Nmodes = 2 * l_cutoff + 1
    /\ geometry = EmptyDict
    /\ n_regions = 0
    /\ last = Record("__post_init__", "ok", None)
    /\ s1 \in OneMode \cup Samples
    /\ s2 \in Samples
    /\ s3 \in Samples

LeftFirst == "scat_product(scat_product(s1, s2), s3)"
RightFirst == "scat_product(s1, scat_product(s2, s3))"
Swapped == "scat_product(s2, s1)"

\* The record of a composition: how it ended and the matrix it returned
Product(op, res) == Record(op, res.out, Some(res.m))

ProductLeftFirst ==
    /\ last' = Product(LeftFirst, ThenProduct(scat_product(s1, s2), s3))
    /\ UNCHANGED <<config, alg>>

ProductRightFirst ==
    /\ last' = Product(RightFirst, ProductThen(s1, scat_product(s2, s3)))
    /\ UNCHANGED <<config, alg>>

ProductSwapped ==
    /\ last' = Product(Swapped, scat_product(s2, s1))
    /\ UNCHANGED <<config, alg>>

NextAlg == ProductLeftFirst \/ ProductRightFirst \/ ProductSwapped

SpecAlg == InitAlg /\ [][NextAlg]_vars

\* ====================================================================
\* Claims about scat_product, checked under SpecAlg
\* ====================================================================

\* C4: scat_product is associative: whenever both groupings of three
\* same-size scattering matrices return (every inverse they need exists),
\* scat_product(scat_product(s1, s2), s3) = scat_product(s1, scat_product(s2, s3)).
C4_Associative ==
    LET left == ThenProduct(scat_product(s1, s2), s3)
        right == ProductThen(s1, scat_product(s2, s3))
    IN  /\ (last.op = LeftFirst /\ last.out = "ok" /\ right.out = "ok")
              => Val(last.run) = right.m
        /\ (last.op = RightFirst /\ last.out = "ok" /\ left.out = "ok")
              => Val(last.run) = left.m

\* Three two-mode matrices whose two groupings both return, the first two
\* of which do not commute under scat_product.
C4_Witness ==
    /\ last.op = LeftFirst
    /\ last.out = "ok"
    /\ Len(s1) = 4
    /\ ProductThen(s1, scat_product(s2, s3)).out = "ok"
    /\ scat_product(s1, s2).out = "ok"
    /\ scat_product(s2, s1).out = "ok"
    /\ scat_product(s1, s2).m # scat_product(s2, s1).m

\* ====================================================================
\* Claims about the append operations, checked under SpecAdd
\* ====================================================================
NwResult(a) ==
    add_nw(geometry, n_regions, a.x0, a.xf, a.Vnm, a.n_points, a.r, a.w, a.h)

NcResult(a) ==
    add_nc(geometry, n_regions, a.x0, a.xf, a.n_points, a.Vnm,
           a.r1, a.r2, a.w1, a.w2, a.h1, a.h2)

\* The call's x0 differs from the end of the previous region
Differs(a) == n_regions # 0 /\ a.x0 # geometry[n_regions - 1].xf

Rejected(res) ==
    /\ res.out \in {ErrMatch, ErrShape}
    /\ res.geometry = geometry
    /\ res.n_regions = n_regions

\* C1: consecutive stored regions share their boundary, geometry[i]['xf'] ==
\* geometry[i+1]['x0'] for 0 <= i < n_regions - 1; in every configuration
\* reached, a call whose x0 differs from the previous region's xf raises
\* ValueError('Regions dont match'), and the first region is never refused
\* for its x0.
C1_SharedBoundary ==
    /\ \A i \in 0..(n_regions - 2) : geometry[i].xf = geometry[i + 1].x0
    /\ \A a \in NwInputsAdd :
         /\ Differs(a) => NwResult(a).out = ErrMatch
         /\ n_regions = 0 => NwResult(a).out # ErrMatch
    /\ \A a \in NcInputsAdd :
         /\ Differs(a) => NcResult(a).out = ErrMatch
         /\ n_regions = 0 => NcResult(a).out # ErrMatch

\* Two regions are stored, the second one starting away from the origin
C1_Witness ==
    /\ n_regions = 2
    /\ last.op = "add_nc" /\ last.out = "ok"
    /\ geometry[1].x0 > 0
    /\ geometry[0].type = "nw"

\* C2: in every configuration reached, add_nw with r None and (w None or h
\* None), add_nc with either end lacking r and (w or h), and any call with
\* a mismatched x0 raise ValueError and leave n_regions and the stored
\* regions as they were.
C2_RejectedUnchanged ==
    /\ \A a \in NwInputsAdd :
         (Differs(a) \/ (a.r = None /\ (a.w = None \/ a.h = None)))
            => Rejected(NwResult(a))
    /\ \A a \in NcInputsAdd :
         (\/ Differs(a)
          \/ (a.r1 = None /\ (a.w1 = None \/ a.h1 = None))
          \/ (a.r2 = None /\ (a.w2 = None \/ a.h2 = None)))
            => Rejected(NcResult(a))

\* A call without a cross-section was refused with one region stored
C2_Witness ==
    /\ last.op = "add_nc" /\ last.out = ErrShape
    /\ n_regions = 1
    /\ DOMAIN geometry = {0}

RegionFields == {"type", "x0", "xf", "dx", "n_points", "V", "r", "w", "h"}

\* The call left the dictionary and the counter as they were
Unchanged(res) == res.geometry = geometry /\ res.n_regions = n_regions

\* C10: appends are atomic: the keys of geometry are exactly 0..n_regions-1,
\* every stored record has all of type, x0, xf, dx, n_points, V, r, w, h,
\* and, in every configuration reached, a call that raises leaves geometry
\* and n_regions as they were.
C10_Atomic ==
    /\ DOMAIN geometry = 0..(n_regions - 1)
    /\ \A k \in DOMAIN geometry : DOMAIN geometry[k] = RegionFields
    /\ \A a \in NwInputsAdd : NwResult(a).out # "ok" => Unchanged(NwResult(a))
    /\ \A a \in NcInputsAdd : NcResult(a).out # "ok" => Unchanged(NcResult(a))

\* ====================================================================
\* Claims about the calculations, checked under Spec
\* ====================================================================
Landauer == "get_Landauer_conductance"

\* The locals of the latest traversal
Run == Val(last.run)

\* Region i carries a potential matrix whose shape is not (N, N)
WrongShape(i) ==
    /\ geometry[i].V # None
    /\ Val(geometry[i].V) # <<2 * l_cutoff + 1, 2 * l_cutoff + 1>>

\* C3: whenever some stored region has a potential matrix of a shape other
\* than (N, N), N = 2 l_cutoff + 1, get_Landauer_conductance ends with the
\* error M_EV raises and returns no conductance.
C3_WrongShapeRaises ==
    (last.op = Landauer /\ \E i \in 0..(n_regions - 1) : WrongShape(i))
        => last.out = ErrVnm

\* C5: a step that is a call of get_Landauer_conductance or get_bands_nw,
\* returning or raising, changes no field of the configuration.
C5_CalculationsPure ==
    [][last'.op \in {Landauer, "get_bands_nw"} => UNCHANGED config]_vars

\* A traversal of two stored regions has raised
C5_Witness ==
    /\ last.op = Landauer /\ last.out = ErrVnm
    /\ n_regions = 2

\* C7: every scat_product call of a traversal that returned had the
\* accumulated S as s1 and the new slice as s2, and the final S is the
\* product of all slices in traversal order.
C7_TraversalOrder ==
    (last.op = Landauer /\ last.out = "G")
        => (Run.accFirst /\ Val(Run.S) = Run.trav)

\* C8: with at least one region stored, S is never read before it is
\* assigned.
C8_AssignedBeforeRead ==
    (last.op = Landauer /\ n_regions >= 1) => last.out # ErrUnbound

\* C9: after a traversal that returned, for every stored region with a
\* discretization count the number of slices accumulated for it times its
\* dx equals |xf - x0|.
C9_FullLength ==
    (last.op = Landauer /\ last.out = "G")
        => \A i \in 0..(n_regions - 1) :
              geometry[i].n_points # None
                => RMul(Q(Run.count[i + 1]), geometry[i].dx)
                     = Q(IAbs(geometry[i].xf - geometry[i].x0))

\* Two chains denote the same matrix when they agree after neighbouring
\* slices of one generator are merged, their lengths added: the slices are
\* exponentials of one matrix, expm(G a) expm(G b) = expm(G (a + b)), and
\* the composition of their scattering matrices is the scattering matrix of
\* the product of the transfer matrices.
RECURSIVE Merged(_)
Merged(chain) ==
    IF Len(chain) <= 1 THEN chain
    ELSE LET rest == Merged(Tail(chain))
             a == Head(chain)
             b == Head(rest)
         IN  IF a.gen = b.gen
             THEN <<[gen |-> a.gen, len |-> RAdd(a.len, b.len)]>> \o Tail(rest)
             ELSE <<a>> \o rest

\* The stored regions are two wires of one cross-section and potential,
\* both undiscretized or both discretized with the same step
SplitWire ==
    /\ n_regions = 2
    /\ geometry[0].type = "nw" /\ geometry[1].type = "nw"
    /\ geometry[0].r = geometry[1].r
    /\ geometry[0].w = geometry[1].w
    /\ geometry[0].h = geometry[1].h
    /\ geometry[0].V = geometry[1].V
    /\ \/ geometry[0].n_points = None /\ geometry[1].n_points = None
       \/ /\ geometry[0].n_points # None /\ geometry[1].n_points # None
          /\ geometry[0].dx = geometry[1].dx

\* The configuration holding the undivided wire instead: one add_nw call
\* over [x0, xf] with the same arguments, and n_points the sum of the two
Undivided ==
    LET a == geometry[0]
        b == geometry[1]
    IN  add_nw(EmptyDict, 0, a.x0, b.xf, a.V,
               IF a.n_points = None THEN None
               ELSE Some(Val(a.n_points) + Val(b.n_points)),
               IF a.r[2] = Q(0) THEN Some(a.r[1][1]) ELSE None,
               a.w, a.h)

\* The traversal of the undivided wire; nan: its exponential overflows
UndividedRun(nan) ==
    get_Landauer_conductance(Undivided.geometry, Undivided.n_regions, Nmodes, 1,
                             IF nan THEN 0 ELSE Undivided.n_regions)

\* C6 as amended: when the stored regions are a wire split in two and the
\* traversal returned, the traversal of the undivided wire either raises
\* OverflowError or returns with the same final scattering matrix.
C6_SplitWire ==
    (last.op = Landauer /\ last.out = "G" /\ SplitWire)
        => /\ Undivided.out = "ok"
           /\ \A nan \in BOOLEAN :
                \/ UndividedRun(nan).out = ErrOverflow
                \/ /\ UndividedRun(nan).out = "G"
                   /\ Merged(Val(UndividedRun(nan).S)) = Merged(Val(Run.S))

\* C6: when the stored regions are a wire split in two and the traversal
\* returned, the traversal of the undivided wire returns the same final
\* scattering matrix, whatever its length.
C6_SplitWireAlways ==
    (last.op = Landauer /\ last.out = "G" /\ SplitWire)
        => \A nan \in BOOLEAN :
              /\ UndividedRun(nan).out = "G"
              /\ Merged(Val(UndividedRun(nan).S)) = Merged(Val(Run.S))

\* A traversal of a split undiscretized wire returned
C6_Witness ==
    /\ last.op = Landauer /\ last.out = "G" /\ SplitWire
    /\ geometry[0].n_points = None
    /\ geometry[0].V # None

\* A traversal of a split discretized wire returned
C6_WitnessDiscretized ==
    /\ last.op = Landauer /\ last.out = "G" /\ SplitWire
    /\ geometry[0].n_points # None

====
